---- MODULE Spec2Model ----
(***************************************************************************)
(* Model of src/main.py: the analyze_pgn request handler of the Stockfish  *)
(* PGN analyzer.  A request decodes a game record, builds the start board, *)
(* launches an engine process, replays the mainline move by move (legality *)
(* check, push, engine analysis, normalisation into a per-ply record),     *)
(* selects the key moments and returns a result envelope.                  *)
(*                                                                         *)
(* python-chess and the engine binary are external to the repository.      *)
(* Chess rules are a small rule set over twelve moves (each piece moves    *)
(* once from its home square); the engine is a script of answers, one per  *)
(* analysed ply, fixed when the request arrives.                           *)
(***************************************************************************)
EXTENDS Integers, Sequences, FiniteSets, TLC

----------------------------------------------------------------------------
(* Bounds of the model.                                                     *)

\* number of request slots of the server that the concurrent specification uses
NumRequests == 2
\* longest mainline of a request of Spec
MaxPly == 3
\* longest mainline of a request of SpecKM (key-moment selection)
MaxKMPly == 7

RequestIds == 1..NumRequests
\* how far the requested line counts reach below 1 and above 3
MultiPVSpan == 3
\* the most lines in one engine answer
MaxLines == 2

----------------------------------------------------------------------------
(* Python values.                                                           *)

\* Optional[T]: None is the empty set, a present value x is {x}
None == {}
Some(x) == {x}
The(o) == CHOOSE x \in o : TRUE

\* a dict with one key, and the empty dict, as sets of <<key, value>>
Dict1(k, v) == {<<k, v>>}
EmptyDict == {}

Min(a, b) == IF a <= b THEN a ELSE b
Max(a, b) == IF a >= b THEN a ELSE b
Abs(x) == IF x >= 0 THEN x ELSE -x

----------------------------------------------------------------------------
(* The chess-rules capability (python-chess), as used by main.py.           *)

WhiteHome == {"e2", "g1", "f1", "d2", "a2", "h2"}
BlackHome == {"e7", "b8", "f8", "d7", "a7", "h7"}

Mv(f, t) == [from |-> f, to |-> t]

\* the moves of the rule set, in the order of a quiet opening
MainLine ==
    << Mv("e2", "e4"), Mv("e7", "e5"), Mv("g1", "f3"), Mv("b8", "c6"),
       Mv("f1", "c4"), Mv("f8", "c5"), Mv("d2", "d3"), Mv("d7", "d6"),
       Mv("a2", "a3"), Mv("a7", "a6"), Mv("h2", "h3"), Mv("h7", "h6") >>

AllMoves == {MainLine[i] : i \in 1..Len(MainLine)}

SideOf(sq) == IF sq \in WhiteHome THEN "w" ELSE "b"
Flip(side) == IF side = "w" THEN "b" ELSE "w"

\* the piece standing on a home square at the start of a game
HomePiece(sq) ==
    IF sq \in {"g1", "b8"} THEN "N"
    ELSE IF sq \in {"f1", "f8"} THEN "B"
    ELSE "P"

StartPieces == [sq \in WhiteHome \cup BlackHome |-> HomePiece(sq)]

\* position encodings that chess.Board(fen) accepts; every other string raises
ValidFens == {"startpos", "black_to_move", "no_Ng1", "no_pe7", "no_pe2"}

\* chess.Board(fen): the board of a valid encoding, with an empty move stack
Board(fen) ==
    [ turn |-> IF fen = "black_to_move" THEN "b" ELSE "w",
      pieces |->
          IF fen = "black_to_move"
          THEN [sq \in ((WhiteHome \cup BlackHome) \ {"e2"}) \cup {"e4"} |->
                    IF sq = "e4" THEN "P" ELSE HomePiece(sq)]
          ELSE IF fen = "no_Ng1"
          THEN [sq \in (WhiteHome \cup BlackHome) \ {"g1"} |-> HomePiece(sq)]
          ELSE IF fen = "no_pe7"
          THEN [sq \in (WhiteHome \cup BlackHome) \ {"e7"} |-> HomePiece(sq)]
          ELSE IF fen = "no_pe2"
          THEN [sq \in (WhiteHome \cup BlackHome) \ {"e2"} |-> HomePiece(sq)]
          ELSE StartPieces,
      move_stack |-> << >> ]

\* the squares a move of the rule set passes over: a bishop's diagonal and the
\* square a pawn's double step skips; a knight jumps
Between(move) ==
    IF move = Mv("f1", "c4") THEN {"e2", "d3"}
    ELSE IF move = Mv("f8", "c5") THEN {"e7", "d6"}
    ELSE IF move = Mv("e2", "e4") THEN {"e3"}
    ELSE IF move = Mv("e7", "e5") THEN {"e6"}
    ELSE {}

\* move in board.legal_moves
IsLegal(board, move) ==
    /\ move \in AllMoves
    /\ move.from \in DOMAIN board.pieces
    /\ SideOf(move.from) = board.turn
    /\ move.to \notin DOMAIN board.pieces
    /\ Between(move) \cap DOMAIN board.pieces = {}

\* board.push(move)
Push(board, move) ==
    [ turn |-> Flip(board.turn),
      pieces |->
          [sq \in (DOMAIN board.pieces \ {move.from}) \cup {move.to} |->
              IF sq = move.to THEN board.pieces[move.from] ELSE board.pieces[sq]],
      move_stack |-> Append(board.move_stack, move) ]

\* board.fen(): the serialisation of the current position
Fen(board) == [placement |-> board.pieces, turn |-> board.turn]

\* move.uci(): origin and destination square
Uci(move) == <<move.from, move.to>>

\* board.san(move): piece letter (none for a pawn) and destination square; the
\* piece is looked up on the board, so it is defined only before the move is pushed
San(board, move) ==
    << IF board.pieces[move.from] = "P" THEN "" ELSE board.pieces[move.from],
       move.to >>

\* list(board.legal_moves), in the order of MainLine
LegalMoves(board) == SelectSeq(MainLine, LAMBDA m : IsLegal(board, m))

----------------------------------------------------------------------------
(* The analysis engine (chess.engine.SimpleEngine), as used by main.py.     *)

Cp(v) == [kind |-> "cp", value |-> v]
Mate(n) == [kind |-> "mate", value |-> n]

\* a line of an engine answer before the engine fills in the position:
\* choice = 0 is an empty pv, choice = k the k-th legal move; multipv may be absent
Line(choice, rel, multipv) == [choice |-> choice, rel |-> rel, multipv |-> multipv]

Raises == [kind |-> "raises", lines |-> << >>]
InfoList(lines) == [kind |-> "list", lines |-> lines]
InfoDict(line) == [kind |-> "dict", lines |-> <<line>>]

\* engine.analyse(board, limit, multipv): the InfoDicts of a scripted answer on
\* this board.  A line whose chosen move does not exist carries no pv.  The
\* score is relative to the side to move of the analysed board.
Analyse(answer, board) ==
    [ i \in 1..Len(answer.lines) |->
        LET l == answer.lines[i]
            legal == LegalMoves(board)
        IN [ pv |-> IF l.choice >= 1 /\ l.choice <= Len(legal)
                    THEN <<legal[l.choice]>> ELSE << >>,
             score |-> [relative |-> l.rel, turn |-> board.turn],
             multipv |-> l.multipv ] ]

\* the largest centipawn magnitude standing for a forced mate
MateCp == 100000

\* _score_to_cp(score)
score_to_cp(score) ==
    LET s == IF score.turn = "w" THEN score.relative
             ELSE [kind |-> score.relative.kind, value |-> 0 - score.relative.value]
    IN IF s.kind = "mate"
       THEN Some(IF s.value > 0 THEN MateCp ELSE 0 - MateCp)
       ELSE Some(s.value)

----------------------------------------------------------------------------
(* Result envelopes.                                                        *)

\* x or []
OrEmptyList(x) == IF x = None THEN << >> ELSE The(x)

\* ok(legal, per_ply, key_moments, status, error); per_ply and key_moments are
\* Optional lists, error is None or an error dict
ok(legal, per_ply, key_moments, status, error) ==
    [ status |-> status,
      legal |-> legal,
      per_ply |-> OrEmptyList(per_ply),
      key_moments |-> OrEmptyList(key_moments),
      error |-> error ]

\* fail with legal left at True
failLegal(code, message, details, legal, per_ply, key_moments) ==
    ok(TRUE, per_ply, key_moments, "error",
       Some([ code |-> code,
              message |-> message,
              details |-> IF details = None \/ The(details) = EmptyDict
                          THEN EmptyDict ELSE The(details) ]))

\* fail(code, message, details, legal, per_ply, key_moments); details is an
\* Optional dict
fail(code, message, details, legal, per_ply, key_moments) ==
    ok(legal, per_ply, key_moments, "error",
       Some([ code |-> code,
              message |-> message,
              details |-> IF details = None \/ The(details) = EmptyDict
                          THEN EmptyDict ELSE The(details) ]))

----------------------------------------------------------------------------
(* Sorting: Python's sorted() is stable, also with reverse=True.            *)

\* sorted() placing the later of two equal keys first
SortedUnstable(xs, keys, reverse) ==
    LET n == Len(xs)
        Ahead(i) ==
            Cardinality({j \in 1..n :
                \/ IF reverse THEN keys[j] > keys[i] ELSE keys[j] < keys[i]
                \/ keys[j] = keys[i] /\ j > i})
    IN [p \in 1..n |-> xs[CHOOSE i \in 1..n : Ahead(i) = p - 1]]

\* sorted(xs, key=..., reverse=...), keys[i] being the key of xs[i]: an element
\* comes after those with a key strictly before its own and after the earlier
\* elements with an equal key
Sorted(xs, keys, reverse) ==
    LET n == Len(xs)
        Ahead(i) ==
            Cardinality({j \in 1..n :
                \/ IF reverse THEN keys[j] > keys[i] ELSE keys[j] < keys[i]
                \/ keys[j] = keys[i] /\ j < i})
    IN [p \in 1..n |-> xs[CHOOSE i \in 1..n : Ahead(i) = p - 1]]

\* pvs left in the order the engine reported the lines
SortedByRankOmitted(pvs) == pvs

\* sorted(pvs, key=lambda x: x["rank"])
SortedByRank(pvs) == Sorted(pvs, [i \in 1..Len(pvs) |-> pvs[i].rank], FALSE)

\* sorted(key_moments, key=lambda x: x.get("swing", 0), reverse=True)
SortedBySwing(kms) == Sorted(kms, [i \in 1..Len(kms) |-> kms[i].swing], TRUE)

----------------------------------------------------------------------------
(* The per-ply record (main.py 120-153).                                    *)

\* NormaliseLines leaving the loop at the first line without moves
RECURSIVE NormaliseLinesBreak(_, _, _, _, _)
NormaliseLinesBreak(lines, i, board, pvs, eval_cp_main) ==
    IF i > Len(lines) THEN [pvs |-> pvs, eval_cp_main |-> eval_cp_main]
    ELSE LET item == lines[i]
         IN IF item.pv = << >>
            THEN [pvs |-> pvs, eval_cp_main |-> eval_cp_main]
            ELSE LET best_move == item.pv[1]
                     eval_cp == score_to_cp(item.score)
                     rank == IF item.multipv = None THEN 1 ELSE The(item.multipv)
                     entry == [ rank |-> rank,
                                uci |-> Uci(best_move),
                                san |-> San(board, best_move),
                                eval_cp |-> eval_cp ]
                 IN NormaliseLinesBreak(lines, i + 1, board, Append(pvs, entry),
                                        IF rank = 1 THEN eval_cp ELSE eval_cp_main)

\* NormaliseLines taking the evaluation of every line, whatever its rank
RECURSIVE NormaliseLinesAnyRank(_, _, _, _, _)
NormaliseLinesAnyRank(lines, i, board, pvs, eval_cp_main) ==
    IF i > Len(lines) THEN [pvs |-> pvs, eval_cp_main |-> eval_cp_main]
    ELSE LET item == lines[i]
         IN IF item.pv = << >>
            THEN NormaliseLinesAnyRank(lines, i + 1, board, pvs, eval_cp_main)
            ELSE LET best_move == item.pv[1]
                     eval_cp == score_to_cp(item.score)
                     rank == IF item.multipv = None THEN 1 ELSE The(item.multipv)
                     entry == [ rank |-> rank,
                                uci |-> Uci(best_move),
                                san |-> San(board, best_move),
                                eval_cp |-> eval_cp ]
                 IN NormaliseLinesAnyRank(lines, i + 1, board, Append(pvs, entry),
                                          eval_cp)

\* the loop over the engine's lines from line i on, with the pvs and the
\* principal evaluation collected so far
RECURSIVE NormaliseLines(_, _, _, _, _)
NormaliseLines(lines, i, board, pvs, eval_cp_main) ==
    IF i > Len(lines) THEN [pvs |-> pvs, eval_cp_main |-> eval_cp_main]
    ELSE LET item == lines[i]
         IN IF item.pv = << >>
            THEN NormaliseLines(lines, i + 1, board, pvs, eval_cp_main)
            ELSE LET best_move == item.pv[1]
                     eval_cp == score_to_cp(item.score)
                     rank == IF item.multipv = None THEN 1 ELSE The(item.multipv)
                     entry == [ rank |-> rank,
                                uci |-> Uci(best_move),
                                san |-> San(board, best_move),
                                eval_cp |-> eval_cp ]
                 IN NormaliseLines(lines, i + 1, board, Append(pvs, entry),
                                   IF rank = 1 THEN eval_cp ELSE eval_cp_main)

\* PlyRecord with the ply counted from zero
PlyRecordZeroBased(ply, move, san, board, lines) ==
    LET n == NormaliseLines(lines, 1, board, << >>, None)
    IN [ ply |-> ply - 1,
         played_uci |-> Uci(move),
         played_san |-> san,
         fen_after |-> Fen(board),
         eval_cp |-> n.eval_cp_main,
         pvs |-> SortedByRank(n.pvs) ]

\* the dict appended to per_ply for the move just pushed; board is the board
\* after the move, san the notation computed before it
PlyRecord(ply, move, san, board, lines) ==
    LET n == NormaliseLines(lines, 1, board, << >>, None)
    IN [ ply |-> ply,
         played_uci |-> Uci(move),
         played_san |-> san,
         fen_after |-> Fen(board),
         eval_cp |-> n.eval_cp_main,
         pvs |-> SortedByRank(n.pvs) ]

----------------------------------------------------------------------------
(* Key moments (main.py 155-171).                                           *)

\* how many key moments are kept
TopN == 5

\* KeyMomentRows with prev kept over a row without evaluation: the next row
\* with one is compared with the last evaluation before the gap
RECURSIVE KeyMomentRowsOverGaps(_, _, _, _)
KeyMomentRowsOverGaps(per_ply, i, prev, key_moments) ==
    IF i > Len(per_ply) THEN key_moments
    ELSE LET row == per_ply[i]
             cur == row.eval_cp
         IN KeyMomentRowsOverGaps(per_ply, i + 1,
                IF cur # None THEN cur ELSE prev,
                IF prev # None /\ cur # None
                THEN Append(key_moments,
                            [ ply |-> row.ply,
                              played_san |-> row.played_san,
                              eval_cp |-> The(cur),
                              swing |-> Abs(The(cur) - The(prev)) ])
                ELSE key_moments)

\* the loop over per_ply from row i on, with prev the evaluation of the row before
RECURSIVE KeyMomentRows(_, _, _, _)
KeyMomentRows(per_ply, i, prev, key_moments) ==
    IF i > Len(per_ply) THEN key_moments
    ELSE LET row == per_ply[i]
             cur == row.eval_cp
         IN KeyMomentRows(per_ply, i + 1, cur,
                IF prev # None /\ cur # None
                THEN Append(key_moments,
                            [ ply |-> row.ply,
                              played_san |-> row.played_san,
                              eval_cp |-> The(cur),
                              swing |-> Abs(The(cur) - The(prev)) ])
                ELSE key_moments)

\* KeySorted without the slice
KeySortedUncut(per_ply) ==
    SortedBySwing(KeyMomentRows(per_ply, 1, None, << >>))

\* sorted(...)[:5]
KeySorted(per_ply) ==
    LET s == SortedBySwing(KeyMomentRows(per_ply, 1, None, << >>))
    IN SubSeq(s, 1, Min(TopN, Len(s)))

----------------------------------------------------------------------------
(* State.  Every local of analyze_pgn is per request; the engine processes  *)
(* are the only objects outside the requests.                               *)

VARIABLES
    pc,         \* pc[r]: where request r stands in analyze_pgn
    req,        \* req[r]: the AnalyzeRequest, None before the request arrives
    stockfish,  \* stockfish[r]: what the engine binary does for this request
    game,       \* game[r]: the parsed game, None before line 62
    board,      \* board[r]: the replay board, None before line 72
    engine,     \* engine[r]: None or the handle of the launched engine process
    per_ply,    \* per_ply[r]: the records appended so far
    ply,        \* ply[r]: the loop counter
    san,        \* san[r]: the notation of the move being analysed (line 109)
    retval,     \* retval[r]: the value of a return statement inside the try
    result,     \* result[r]: the envelope handed back to the caller
    sessions    \* the engine processes launched so far, by handle

vars == <<pc, req, stockfish, game, board, engine, per_ply, ply, san, retval,
          result, sessions>>

Init ==
    /\ pc = [r \in RequestIds |-> "idle"]
    /\ req = [r \in RequestIds |-> None]
    /\ stockfish = [r \in RequestIds |-> None]
    /\ game = [r \in RequestIds |-> None]
    /\ board = [r \in RequestIds |-> None]
    /\ engine = [r \in RequestIds |-> None]
    /\ per_ply = [r \in RequestIds |-> << >>]
    /\ ply = [r \in RequestIds |-> 0]
    /\ san = [r \in RequestIds |-> << >>]
    /\ retval = [r \in RequestIds |-> None]
    /\ result = [r \in RequestIds |-> None]
    /\ sessions = << >>

----------------------------------------------------------------------------
(* Inputs.                                                                  *)

\* req.pgn as chess.pgn.read_game sees it: text it raises on, text without a
\* game (read_game returns None), or a game with a FEN header and a mainline
Unreadable == [read |-> "raises", fen_header |-> "startpos", movetext |-> << >>]
NoGame == [read |-> "none", fen_header |-> "startpos", movetext |-> << >>]
Pgn(fen_header, movetext) ==
    [read |-> "game", fen_header |-> fen_header, movetext |-> movetext]

\* read_game yields only mainlines that are legal from the header position
PgnGames(maxPly) ==
    {Pgn("startpos", SubSeq(MainLine, 1, n)) : n \in 0..maxPly}
    \cup {Pgn("black_to_move", SubSeq(MainLine, 2, n + 1)) : n \in 1..maxPly}
    \cup {Pgn("no_pe2", <<Mv("f1", "c4")>>)}
    \cup {Pgn("not a fen", << >>)}

Request(pgn, initial_fen, multipv) ==
    [pgn |-> pgn, initial_fen |-> initial_fen, multipv |-> multipv]

\* the engine of one request: whether the binary launches, whether it accepts
\* the MultiPV option, and its answers by ply
Engine(launch, script) ==
    [launch |-> launch, accepts |-> TRUE, script |-> script]

\* the same engine rejecting engine.configure({"MultiPV": n})
Rejecting(sf) == [sf EXCEPT !.accepts = FALSE]

\* all sequences of length n over S
RECURSIVE SeqsOf(_, _)
SeqsOf(S, n) ==
    IF n = 0 THEN {<< >>}
    ELSE {Append(q, x) : q \in SeqsOf(S, n - 1), x \in S}

\* one line, rank 1, score v for the side to move
OneLine(v) == InfoList(<<Line(1, Cp(v), Some(1))>>)
\* two lines, the alternate reported first
TwoLines == InfoList(<<Line(2, Cp(0 - 15), Some(2)), Line(1, Cp(40), Some(1))>>)
\* a line without moves (terminal position)
NoMoves == InfoList(<<Line(0, Mate(0), Some(1))>>)
\* a single InfoDict without multipv key, mating score
BareDict == InfoDict(Line(1, Mate(2), None))
\* two lines both ranked 2
NoPrincipal == InfoList(<<Line(1, Cp(10), Some(2)), Line(2, Cp(5), Some(2))>>)

Answers == {Raises, OneLine(30), TwoLines, NoMoves, BareDict, NoPrincipal}

\* the lines an engine may report: without moves or with the first or second
\* legal move, scored for the side to move, ranked 1, 2 or not at all
Lines ==
    { Line(choice, rel, multipv) :
        choice \in 0..2,
        rel \in {Cp(10), Cp(0 - 30)},
        multipv \in {None, Some(1), Some(2)} }

\* every answer of at most MaxLines such lines, as a list or as a single dict
LineAnswers ==
    UNION { {InfoList(ls) : ls \in SeqsOf(Lines, n)} : n \in 0..MaxLines }
    \cup {InfoDict(l) : l \in Lines}
KMAnswers == {OneLine(0), OneLine(20), NoMoves}
ConcAnswers == {Raises, OneLine(30)}

InitialFens ==
    {None, Some(""), Some("not a fen")} \cup {Some(f) : f \in ValidFens}

DefaultMultiPV == 2

\* the most lines ever requested from the engine
MaxMultiPV == 3

\* req.multipv is any int: the values from MultiPVSpan below 1 to MultiPVSpan
\* above MaxMultiPV
MultiPVs == (1 - MultiPVSpan)..(MaxMultiPV + MultiPVSpan)

\* the line count bounded from above only: min(req.multipv, 3)
ClampUpperOnly(multipv) == Min(multipv, MaxMultiPV)

\* max(1, min(req.multipv, 3))
ClampMultiPV(multipv) == Max(1, Min(multipv, MaxMultiPV))

----------------------------------------------------------------------------
(* analyze_pgn, step by step.                                               *)

\* the request arrives: FastAPI calls analyze_pgn(req)
Receive(r, rq, sf) ==
    /\ pc[r] = "idle"
    /\ req' = [req EXCEPT ![r] = Some(rq)]
    /\ stockfish' = [stockfish EXCEPT ![r] = Some(sf)]
    /\ pc' = [pc EXCEPT ![r] = "parse"]
    /\ UNCHANGED <<game, board, engine, per_ply, ply, san, retval, result, sessions>>

\* ParsePGN without the test of line 66: a None game goes on to line 74, where
\* game.board() raises inside the try of line 70
ParsePGNNoneUnchecked(r) ==
    /\ pc[r] = "parse"
    /\ LET pgn == The(req[r]).pgn
       IN IF pgn.read = "raises"
          THEN /\ result' = [result EXCEPT ![r] =
                      Some(fail("INVALID_PGN", "Could not parse PGN.",
                                Some(Dict1("exception", "unreadable pgn")),
                                FALSE, None, None))]
               /\ pc' = [pc EXCEPT ![r] = "done"]
               /\ UNCHANGED game
          ELSE IF pgn.read = "none"
          THEN /\ result' = [result EXCEPT ![r] =
                      Some(fail("INVALID_FEN", "Initial FEN is invalid.",
                                Some(Dict1("exception", "game is None")),
                                FALSE, None, None))]
               /\ pc' = [pc EXCEPT ![r] = "done"]
               /\ UNCHANGED game
          ELSE /\ game' = [game EXCEPT ![r] =
                      Some([fen_header |-> pgn.fen_header, moves |-> pgn.movetext])]
               /\ pc' = [pc EXCEPT ![r] = "board"]
               /\ UNCHANGED result
    /\ UNCHANGED <<req, stockfish, board, engine, per_ply, ply, san, retval, sessions>>

\* lines 60-67: read_game; a raise or None returns INVALID_PGN at once
ParsePGN(r) ==
    /\ pc[r] = "parse"
    /\ LET pgn == The(req[r]).pgn
       IN IF pgn.read = "raises"
          THEN /\ result' = [result EXCEPT ![r] =
                      Some(fail("INVALID_PGN", "Could not parse PGN.",
                                Some(Dict1("exception", "unreadable pgn")),
                                FALSE, None, None))]
               /\ pc' = [pc EXCEPT ![r] = "done"]
               /\ UNCHANGED game
          ELSE IF pgn.read = "none"
          THEN /\ result' = [result EXCEPT ![r] =
                      Some(fail("INVALID_PGN", "Could not parse PGN.", None,
                                FALSE, None, None))]
               /\ pc' = [pc EXCEPT ![r] = "done"]
               /\ UNCHANGED game
          ELSE /\ game' = [game EXCEPT ![r] =
                      Some([fen_header |-> pgn.fen_header, moves |-> pgn.movetext])]
               /\ pc' = [pc EXCEPT ![r] = "board"]
               /\ UNCHANGED result
    /\ UNCHANGED <<req, stockfish, board, engine, per_ply, ply, san, retval, sessions>>

\* the except clause of line 175
InternalError(message) ==
    fail("INTERNAL_ERROR", "Unexpected internal error during analysis.",
         Some(Dict1("exception", message)), FALSE, None, None)

\* an engine process as popen_uci returns it: who launched it, whether the
\* process runs,
\* and what has been asked of it: the quit calls, the requests that called it,
\* the configure call (None before it), the analyse calls in order and the
\* line count of the last one
NewSession(r) ==
    [ owner |-> r, open |-> TRUE, quits |-> 0, users |-> {}, multipv |-> None,
      configure |-> None, calls |-> << >> ]

\* StartBoard with popen_uci moved ahead of the start board: the engine is
\* launched before the start position is decoded
StartBoardEngineFirst(r) ==
    /\ pc[r] = "board"
    /\ LET fen == The(req[r]).initial_fen
           truthy == fen # None /\ The(fen) # ""
           source == IF truthy THEN The(fen) ELSE The(game[r]).fen_header
       IN IF ~The(stockfish[r]).launch
          THEN /\ retval' = [retval EXCEPT ![r] =
                      Some(InternalError("engine launch failed"))]
               /\ pc' = [pc EXCEPT ![r] = "finally"]
               /\ UNCHANGED <<board, engine, sessions, result>>
          ELSE /\ sessions' = Append(sessions, NewSession(r))
               /\ engine' = [engine EXCEPT ![r] = Some(Len(sessions) + 1)]
               /\ UNCHANGED retval
               /\ IF source \in ValidFens
                  THEN /\ board' = [board EXCEPT ![r] = Some(Board(source))]
                       /\ pc' = [pc EXCEPT ![r] = "configure"]
                       /\ UNCHANGED result
                  ELSE /\ result' = [result EXCEPT ![r] =
                              Some(fail("INVALID_FEN", "Initial FEN is invalid.",
                                        Some(Dict1("exception", "invalid fen")),
                                        FALSE, None, None))]
                       /\ pc' = [pc EXCEPT ![r] = "done"]
                       /\ UNCHANGED board
    /\ UNCHANGED <<req, stockfish, game, per_ply, ply, san>>

\* lines 69-78: the start board, from a truthy initial_fen or from the game;
\* a raise returns INVALID_FEN at once
StartBoard(r) ==
    /\ pc[r] = "board"
    /\ LET fen == The(req[r]).initial_fen
           truthy == fen # None /\ The(fen) # ""
           source == IF truthy THEN The(fen) ELSE The(game[r]).fen_header
       IN IF source \in ValidFens
          THEN /\ board' = [board EXCEPT ![r] = Some(Board(source))]
               /\ pc' = [pc EXCEPT ![r] = "launch"]
               /\ UNCHANGED result
          ELSE /\ result' = [result EXCEPT ![r] =
                      Some(fail("INVALID_FEN", "Initial FEN is invalid.",
                                Some(Dict1("exception", "invalid fen")),
                                FALSE, None, None))]
               /\ pc' = [pc EXCEPT ![r] = "done"]
               /\ UNCHANGED board
    /\ UNCHANGED <<req, stockfish, game, engine, per_ply, ply, san, retval, sessions>>

\* Launch with one engine process kept for the whole server: the first request
\* starts it and every later request takes the same handle
LaunchShared(r) ==
    /\ pc[r] = "launch"
    /\ IF The(stockfish[r]).launch
       THEN /\ sessions' = IF sessions = << >>
                           THEN <<NewSession(r)>>
                           ELSE sessions
            /\ engine' = [engine EXCEPT ![r] = Some(1)]
            /\ pc' = [pc EXCEPT ![r] = "configure"]
            /\ UNCHANGED retval
       ELSE /\ retval' = [retval EXCEPT ![r] = Some(InternalError("engine launch failed"))]
            /\ pc' = [pc EXCEPT ![r] = "finally"]
            /\ UNCHANGED <<engine, sessions>>
    /\ UNCHANGED <<req, stockfish, game, board, per_ply, ply, san, result>>

\* line 81: popen_uci starts a new engine process, or raises
Launch(r) ==
    /\ pc[r] = "launch"
    /\ IF The(stockfish[r]).launch
       THEN /\ sessions' = Append(sessions, NewSession(r))
            /\ engine' = [engine EXCEPT ![r] = Some(Len(sessions) + 1)]
            /\ pc' = [pc EXCEPT ![r] = "configure"]
            /\ UNCHANGED retval
       ELSE /\ retval' = [retval EXCEPT ![r] = Some(InternalError("engine launch failed"))]
            /\ pc' = [pc EXCEPT ![r] = "finally"]
            /\ UNCHANGED <<engine, sessions>>
    /\ UNCHANGED <<req, stockfish, game, board, per_ply, ply, san, result>>

\* Configure without the try of line 84: a rejected option raises into the
\* except clause of line 175
ConfigureUnguarded(r) ==
    /\ pc[r] = "configure"
    /\ sessions' = [sessions EXCEPT ![The(engine[r])].configure =
                        Some([ multipv |-> ClampMultiPV(The(req[r]).multipv),
                               accepted |-> The(stockfish[r]).accepts ])]
    /\ IF The(stockfish[r]).accepts
       THEN /\ per_ply' = [per_ply EXCEPT ![r] = << >>]
            /\ ply' = [ply EXCEPT ![r] = 0]
            /\ pc' = [pc EXCEPT ![r] = "loop"]
            /\ UNCHANGED retval
       ELSE /\ retval' = [retval EXCEPT ![r] =
                   Some(InternalError("engine configure failed"))]
            /\ pc' = [pc EXCEPT ![r] = "finally"]
            /\ UNCHANGED <<per_ply, ply>>
    /\ UNCHANGED <<req, stockfish, game, board, engine, san, result>>

\* Configure with per_ply kept in a list of the module that is never emptied:
\* a request starts from the records of a request that has already returned
ConfigureKeepsRecords(r) ==
    /\ pc[r] = "configure"
    /\ sessions' = [sessions EXCEPT ![The(engine[r])].configure =
                        Some([ multipv |-> ClampMultiPV(The(req[r]).multipv),
                               accepted |-> The(stockfish[r]).accepts ])]
    /\ LET earlier == {q \in RequestIds \ {r} : pc[q] = "done"}
       IN per_ply' = [per_ply EXCEPT ![r] =
                         IF earlier = {} THEN << >>
                         ELSE per_ply[CHOOSE q \in earlier : TRUE]]
    /\ ply' = [ply EXCEPT ![r] = 0]
    /\ pc' = [pc EXCEPT ![r] = "loop"]
    /\ UNCHANGED <<req, stockfish, game, board, engine, san, retval, result>>

\* lines 83-90: configure MultiPV, whose failure is passed over; empty per_ply
Configure(r) ==
    /\ pc[r] = "configure"
    /\ sessions' = [sessions EXCEPT ![The(engine[r])].configure =
                        Some([ multipv |-> ClampMultiPV(The(req[r]).multipv),
                               accepted |-> The(stockfish[r]).accepts ])]
    /\ per_ply' = [per_ply EXCEPT ![r] = << >>]
    /\ ply' = [ply EXCEPT ![r] = 0]
    /\ pc' = [pc EXCEPT ![r] = "loop"]
    /\ UNCHANGED <<req, stockfish, game, board, engine, san, retval, result>>

\* NextMove with the illegal-move envelope returned from outside the try
\* statement, so that the finally clause does not run
NextMoveNoFinally(r) ==
    /\ pc[r] = "loop"
    /\ LET moves == The(game[r]).moves
           b == The(board[r])
       IN IF ply[r] >= Len(moves)
          THEN /\ pc' = [pc EXCEPT ![r] = "key_moments"]
               /\ UNCHANGED <<ply, result, san, board>>
          ELSE LET move == moves[ply[r] + 1]
               IN /\ ply' = [ply EXCEPT ![r] = ply[r] + 1]
                  /\ IF ~IsLegal(b, move)
                     THEN /\ result' = [result EXCEPT ![r] =
                                 Some(fail("ILLEGAL_MOVE",
                                           "Move is not legal from reconstructed position.",
                                           Some(Dict1("first_illegal_move",
                                                      [ ply |-> ply[r] + 1,
                                                        uci |-> Uci(move),
                                                        fen_before |-> Fen(b) ])),
                                           FALSE, None, None))]
                          /\ pc' = [pc EXCEPT ![r] = "done"]
                          /\ UNCHANGED <<san, board>>
                     ELSE /\ san' = [san EXCEPT ![r] = San(b, move)]
                          /\ board' = [board EXCEPT ![r] = Some(Push(b, move))]
                          /\ pc' = [pc EXCEPT ![r] = "analyse"]
                          /\ UNCHANGED result
    /\ UNCHANGED <<req, stockfish, game, engine, per_ply, retval, sessions>>

\* NextMove with the ply counter advanced only after the legality check
NextMoveLateIncrement(r) ==
    /\ pc[r] = "loop"
    /\ LET moves == The(game[r]).moves
           b == The(board[r])
       IN IF ply[r] >= Len(moves)
          THEN /\ pc' = [pc EXCEPT ![r] = "key_moments"]
               /\ UNCHANGED <<ply, retval, san, board>>
          ELSE LET move == moves[ply[r] + 1]
               IN /\ ply' = [ply EXCEPT ![r] = ply[r] + 1]
                  /\ IF ~IsLegal(b, move)
                     THEN /\ retval' = [retval EXCEPT ![r] =
                                 Some(fail("ILLEGAL_MOVE",
                                           "Move is not legal from reconstructed position.",
                                           Some(Dict1("first_illegal_move",
                                                      [ ply |-> ply[r],
                                                        uci |-> Uci(move),
                                                        fen_before |-> Fen(b) ])),
                                           FALSE, None, None))]
                          /\ pc' = [pc EXCEPT ![r] = "finally"]
                          /\ UNCHANGED <<san, board>>
                     ELSE /\ san' = [san EXCEPT ![r] = San(b, move)]
                          /\ board' = [board EXCEPT ![r] = Some(Push(b, move))]
                          /\ pc' = [pc EXCEPT ![r] = "analyse"]
                          /\ UNCHANGED retval
    /\ UNCHANGED <<req, stockfish, game, engine, per_ply, result, sessions>>

\* lines 92-110: the next mainline move, if any: legality check, san, push
NextMove(r) ==
    /\ pc[r] = "loop"
    /\ LET moves == The(game[r]).moves
           b == The(board[r])
       IN IF ply[r] >= Len(moves)
          THEN /\ pc' = [pc EXCEPT ![r] = "key_moments"]
               /\ UNCHANGED <<ply, retval, san, board>>
          ELSE LET move == moves[ply[r] + 1]
               IN /\ ply' = [ply EXCEPT ![r] = ply[r] + 1]
                  /\ IF ~IsLegal(b, move)
                     THEN /\ retval' = [retval EXCEPT ![r] =
                                 Some(fail("ILLEGAL_MOVE",
                                           "Move is not legal from reconstructed position.",
                                           Some(Dict1("first_illegal_move",
                                                      [ ply |-> ply[r] + 1,
                                                        uci |-> Uci(move),
                                                        fen_before |-> Fen(b) ])),
                                           FALSE, None, None))]
                          /\ pc' = [pc EXCEPT ![r] = "finally"]
                          /\ UNCHANGED <<san, board>>
                     ELSE /\ san' = [san EXCEPT ![r] = San(b, move)]
                          /\ board' = [board EXCEPT ![r] = Some(Push(b, move))]
                          /\ pc' = [pc EXCEPT ![r] = "analyse"]
                          /\ UNCHANGED retval
    /\ UNCHANGED <<req, stockfish, game, engine, per_ply, result, sessions>>

\* AnalysePly calling the engine a second time when the first call raises
AnalysePlyRetry(r) ==
    /\ pc[r] = "analyse"
    /\ LET e == The(engine[r])
           answer == The(stockfish[r]).script[ply[r]]
           b == The(board[r])
           move == The(game[r]).moves[ply[r]]
           multipv == ClampMultiPV(The(req[r]).multipv)
           first == Len(sessions[e].calls) < ply[r]
       IN /\ sessions' = [sessions EXCEPT
                             ![e].users = @ \cup {r},
                             ![e].multipv = Some(multipv),
                             ![e].calls = Append(@, [ by |-> r, fen |-> Fen(b),
                                                      multipv |-> multipv ])]
          /\ IF ~sessions[e].open
             THEN /\ retval' = [retval EXCEPT ![r] = Some(InternalError("engine terminated"))]
                  /\ pc' = [pc EXCEPT ![r] = "finally"]
                  /\ UNCHANGED per_ply
             ELSE IF answer.kind = "raises"
             THEN IF first
                  THEN UNCHANGED <<retval, pc, per_ply>>
                  ELSE /\ retval' = [retval EXCEPT ![r] =
                              Some(InternalError("engine analyse failed"))]
                       /\ pc' = [pc EXCEPT ![r] = "finally"]
                       /\ UNCHANGED per_ply
             ELSE /\ per_ply' = [per_ply EXCEPT ![r] =
                         Append(@, PlyRecord(ply[r], move, san[r], b, Analyse(answer, b)))]
                  /\ pc' = [pc EXCEPT ![r] = "loop"]
                  /\ UNCHANGED retval
    /\ UNCHANGED <<req, stockfish, game, board, engine, ply, san, result>>

\* lines 112-153: analyse the board after the move and append the ply's record;
\* a raise of the engine goes to the except clause of line 175
AnalysePly(r) ==
    /\ pc[r] = "analyse"
    /\ LET e == The(engine[r])
           answer == The(stockfish[r]).script[ply[r]]
           b == The(board[r])
           move == The(game[r]).moves[ply[r]]
           multipv == ClampMultiPV(The(req[r]).multipv)
       IN /\ sessions' = [sessions EXCEPT
                             ![e].users = @ \cup {r},
                             ![e].multipv = Some(multipv),
                             ![e].calls = Append(@, [ by |-> r, fen |-> Fen(b),
                                                      multipv |-> multipv ])]
          /\ IF ~sessions[e].open
             THEN /\ retval' = [retval EXCEPT ![r] = Some(InternalError("engine terminated"))]
                  /\ pc' = [pc EXCEPT ![r] = "finally"]
                  /\ UNCHANGED per_ply
             ELSE IF answer.kind = "raises"
             THEN /\ retval' = [retval EXCEPT ![r] = Some(InternalError("engine analyse failed"))]
                  /\ pc' = [pc EXCEPT ![r] = "finally"]
                  /\ UNCHANGED per_ply
             ELSE /\ per_ply' = [per_ply EXCEPT ![r] =
                         Append(@, PlyRecord(ply[r], move, san[r], b, Analyse(answer, b)))]
                  /\ pc' = [pc EXCEPT ![r] = "loop"]
                  /\ UNCHANGED retval
    /\ UNCHANGED <<req, stockfish, game, board, engine, ply, san, result>>

\* lines 155-173: key moments, and the return of the ok envelope
KeyMoments(r) ==
    /\ pc[r] = "key_moments"
    /\ retval' = [retval EXCEPT ![r] =
           Some(ok(TRUE, Some(per_ply[r]), Some(KeySorted(per_ply[r])), "ok", None))]
    /\ pc' = [pc EXCEPT ![r] = "finally"]
    /\ UNCHANGED <<req, stockfish, game, board, engine, per_ply, ply, san, result, sessions>>

\* Finally without the try around engine.quit(): a raise of quit replaces the
\* pending return value and leaves analyze_pgn as an unhandled exception
FinallyUnguarded(r) ==
    /\ pc[r] = "finally"
    /\ IF engine[r] # None
       THEN \E quit_ok \in BOOLEAN, runs \in BOOLEAN :
               /\ quit_ok => ~runs
               /\ sessions' = [sessions EXCEPT ![The(engine[r])] =
                                  [@ EXCEPT !.open = runs,
                                            !.quits = @ + 1,
                                            !.users = @ \cup {r}]]
               /\ IF quit_ok
                  THEN /\ result' = [result EXCEPT ![r] = retval[r]]
                       /\ pc' = [pc EXCEPT ![r] = "done"]
                  ELSE /\ pc' = [pc EXCEPT ![r] = "crashed"]
                       /\ UNCHANGED result
       ELSE /\ result' = [result EXCEPT ![r] = retval[r]]
            /\ pc' = [pc EXCEPT ![r] = "done"]
            /\ UNCHANGED sessions
    /\ UNCHANGED <<req, stockfish, game, board, engine, per_ply, ply, san, retval>>

\* lines 179-184: quit the engine if one was launched, then hand the pending
\* return value to the caller.  A quit that returns has stopped the process; a
\* raise of quit is passed over with no further call on the engine, and the
\* process may or may not have stopped
Finally(r) ==
    /\ pc[r] = "finally"
    /\ IF engine[r] # None
       THEN \E quit_ok \in BOOLEAN, runs \in BOOLEAN :
               /\ quit_ok => ~runs
               /\ sessions' = [sessions EXCEPT ![The(engine[r])] =
                                  [@ EXCEPT !.open = runs,
                                            !.quits = @ + 1,
                                            !.users = @ \cup {r}]]
       ELSE UNCHANGED sessions
    /\ result' = [result EXCEPT ![r] = retval[r]]
    /\ pc' = [pc EXCEPT ![r] = "done"]
    /\ UNCHANGED <<req, stockfish, game, board, engine, per_ply, ply, san, retval>>

Step(r) ==
    \/ ParsePGN(r)
    \/ StartBoard(r)
    \/ Launch(r)
    \/ Configure(r)
    \/ NextMove(r)
    \/ AnalysePly(r)
    \/ KeyMoments(r)
    \/ Finally(r)

----------------------------------------------------------------------------
(* Specifications.                                                          *)

EnginesFor(pgn, answers) ==
    {Engine(FALSE, << >>)}
    \cup {Engine(TRUE, script) : script \in SeqsOf(answers, Len(pgn.movetext))}

\* Spec: one request, every decoding outcome, start position and engine answer,
\* and engines that reject the MultiPV option
ReceiveAny ==
    /\ pc[1] = "idle"
    /\ \E pgn \in {Unreadable, NoGame} \cup PgnGames(MaxPly), fen \in InitialFens :
          \E sf \in EnginesFor(pgn, Answers)
                    \cup {Rejecting(e) : e \in EnginesFor(pgn, ConcAnswers)} :
              Receive(1, Request(pgn, fen, DefaultMultiPV), sf)

Next == ReceiveAny \/ Step(1)

Spec == Init /\ [][Next]_vars

\* SpecKM: one request with a long legal game and evaluations that tie and differ
ReceiveLong ==
    /\ pc[1] = "idle"
    /\ \E n \in 0..MaxKMPly :
          \E script \in SeqsOf(KMAnswers, n) :
              Receive(1, Request(Pgn("startpos", SubSeq(MainLine, 1, n)), None,
                                 DefaultMultiPV),
                      Engine(TRUE, script))

NextKM == ReceiveLong \/ Step(1)

SpecKM == Init /\ [][NextKM]_vars

\* SpecConc: every request slot may receive a request while the others run
ConcPgn == Pgn("startpos", SubSeq(MainLine, 1, 1))

ReceiveConcurrent ==
    \E r \in RequestIds :
        /\ pc[r] = "idle"
        /\ \E fen \in {None, Some("black_to_move"), Some("not a fen")},
              sf \in EnginesFor(ConcPgn, ConcAnswers) :
              Receive(r, Request(ConcPgn, fen, DefaultMultiPV), sf)

NextConc == ReceiveConcurrent \/ (\E r \in RequestIds : Step(r))

SpecConc == Init /\ [][NextConc]_vars

\* SpecPV: one request with any line count, on a short legal game
ReceiveMultiPV ==
    /\ pc[1] = "idle"
    /\ \E n \in 0..2, multipv \in MultiPVs, accepts \in BOOLEAN :
          \E sf \in EnginesFor(Pgn("startpos", SubSeq(MainLine, 1, n)), ConcAnswers) :
              Receive(1, Request(Pgn("startpos", SubSeq(MainLine, 1, n)), None, multipv),
                      IF accepts THEN sf ELSE Rejecting(sf))

NextPV == ReceiveMultiPV \/ Step(1)

SpecPV == Init /\ [][NextPV]_vars

\* SpecLines: one request with a legal game of one or two plies whose engine
\* gives the same answer, any of LineAnswers, at every ply
ReceiveLines ==
    /\ pc[1] = "idle"
    /\ \E n \in 1..2, answer \in LineAnswers :
          Receive(1, Request(Pgn("startpos", SubSeq(MainLine, 1, n)), None,
                             DefaultMultiPV),
                  Engine(TRUE, [i \in 1..n |-> answer]))

NextLines == ReceiveLines \/ Step(1)

SpecLines == Init /\ [][NextLines]_vars

----------------------------------------------------------------------------
(* What a request asks for, read off its inputs.                            *)

Rq(r) == The(req[r])
Sf(r) == The(stockfish[r])
Envelope(r) == The(result[r])
Returned(r) == pc[r] = "done" /\ result[r] # None

\* the record decodes: read_game returns a game
Decodes(rq) == rq.pgn.read = "game"

\* the encoding the start board is built from
StartSource(rq) ==
    IF rq.initial_fen # None /\ The(rq.initial_fen) # ""
    THEN The(rq.initial_fen) ELSE rq.pgn.fen_header

StartValid(rq) == StartSource(rq) \in ValidFens

\* the position after the first n moves, none of them checked
RECURSIVE PositionAfter(_, _, _)
PositionAfter(b, moves, n) ==
    IF n = 0 THEN b ELSE Push(PositionAfter(b, moves, n - 1), moves[n])

\* the ply of the first move that is illegal where it is played, 0 if none
RECURSIVE FirstIllegalFrom(_, _, _)
FirstIllegalFrom(b, moves, i) ==
    IF i > Len(moves) THEN 0
    ELSE IF ~IsLegal(b, moves[i]) THEN i
    ELSE FirstIllegalFrom(Push(b, moves[i]), moves, i + 1)

FirstIllegal(rq) == FirstIllegalFrom(Board(StartSource(rq)), rq.pgn.movetext, 1)

\* the engine launches and answers the analyses of plies 1..n
EngineServes(sf, n) ==
    /\ sf.launch
    /\ \A i \in 1..n : sf.script[i].kind # "raises"

ErrorCode(env) == The(env.error).code
ErrorDetails(env) == The(env.error).details

----------------------------------------------------------------------------
(* C1.  A request whose record decodes, whose start position is valid,      *)
(* whose N mainline moves are all legal and whose engine launches and       *)
(* answers every analysis returns status "ok", legal, no error, and per_ply *)
(* of length N whose i-th entry has ply = i.                                *)

C1_Premise(r) ==
    /\ Decodes(Rq(r)) /\ StartValid(Rq(r))
    /\ FirstIllegal(Rq(r)) = 0
    /\ EngineServes(Sf(r), Len(Rq(r).pgn.movetext))

C1_AllLegalOk ==
    \A r \in RequestIds :
        (Returned(r) /\ C1_Premise(r)) =>
            LET e == Envelope(r)
            IN /\ e.status = "ok"
               /\ e.legal = TRUE
               /\ e.error = None
               /\ Len(e.per_ply) = Len(Rq(r).pgn.movetext)
               /\ \A i \in 1..Len(e.per_ply) : e.per_ply[i].ply = i

C1_Witness ==
    \E r \in RequestIds :
        /\ Returned(r) /\ C1_Premise(r)
        /\ Len(Rq(r).pgn.movetext) >= 3
        /\ Len(Envelope(r).per_ply) >= 3

----------------------------------------------------------------------------
(* C2.  A request whose first illegal move is at ply k, with plies 1..k-1   *)
(* analysed without engine failure, returns per_ply holding exactly the     *)
(* k-1 records of the plies replayed before the failure.                    *)

IllegalAt(r, k) ==
    /\ Decodes(Rq(r)) /\ StartValid(Rq(r))
    /\ FirstIllegal(Rq(r)) = k
    /\ k >= 1

C2_PartialPerPlyOnIllegalMove ==
    \A r \in RequestIds :
        \A k \in 1..Len(MainLine) :
            (Returned(r) /\ IllegalAt(r, k) /\ EngineServes(Sf(r), k - 1)) =>
                /\ Len(Envelope(r).per_ply) = k - 1
                /\ Envelope(r).per_ply = per_ply[r]

----------------------------------------------------------------------------
(* C3.  A request whose first illegal move is at ply k halts there: status  *)
(* "error", not legal, code ILLEGAL_MOVE, and first_illegal_move carries    *)
(* ply k, the move's uci and the fen of the position after moves 1..k-1;    *)
(* the rejected move is not applied and no later move is checked.           *)

HaltsAt(r, k) ==
    LET e == Envelope(r)
        moves == Rq(r).pgn.movetext
        before == PositionAfter(Board(StartSource(Rq(r))), moves, k - 1)
    IN /\ e.status = "error"
       /\ e.legal = FALSE
       /\ e.error # None
       /\ ErrorCode(e) = "ILLEGAL_MOVE"
       /\ ErrorDetails(e) =
              Dict1("first_illegal_move",
                    [ply |-> k, uci |-> Uci(moves[k]), fen_before |-> Fen(before)])
       /\ ply[r] = k
       /\ The(board[r]) = before

\* C3 as stated: for every request whose first illegal move is at ply k
C3_EveryIllegalRequestHalts ==
    \A r \in RequestIds :
        \A k \in 1..Len(MainLine) :
            (Returned(r) /\ IllegalAt(r, k)) => HaltsAt(r, k)

\* C3 amended: provided the engine launched and answered the analyses of
\* plies 1..k-1; and in every state, of every request, no ply beyond the
\* first illegal one is ever reached
C3_IllegalMoveHalts ==
    \A r \in RequestIds :
        /\ \A k \in 1..Len(MainLine) :
              (Returned(r) /\ IllegalAt(r, k) /\ EngineServes(Sf(r), k - 1))
                  => HaltsAt(r, k)
        /\ (req[r] # None /\ Decodes(Rq(r)) /\ StartValid(Rq(r))
                /\ FirstIllegal(Rq(r)) >= 1)
              => /\ ply[r] <= FirstIllegal(Rq(r))
                 /\ (board[r] # None =>
                        Len(The(board[r]).move_stack) < FirstIllegal(Rq(r)))

C3_Witness ==
    \E r \in RequestIds :
        /\ Returned(r)
        /\ IllegalAt(r, 3) /\ EngineServes(Sf(r), 2)
        /\ ErrorCode(Envelope(r)) = "ILLEGAL_MOVE"
        /\ Len(The(board[r]).move_stack) = 2

----------------------------------------------------------------------------
(* C4.  When the engine fails at ply j after plies 1..j-1 were recorded,    *)
(* the envelope has status "error", code INTERNAL_ERROR, and its per_ply    *)
(* still holds the j-1 records already computed.                            *)

EngineFailsAt(r, j) ==
    /\ Decodes(Rq(r)) /\ StartValid(Rq(r))
    /\ j \in 1..Len(Rq(r).pgn.movetext)
    /\ FirstIllegal(Rq(r)) \notin 1..j
    /\ EngineServes(Sf(r), j - 1)
    /\ Sf(r).script[j].kind = "raises"

C4_PartialPerPlyOnInternalError ==
    \A r \in RequestIds :
        \A j \in 1..Len(MainLine) :
            (Returned(r) /\ EngineFailsAt(r, j)) =>
                /\ Envelope(r).status = "error"
                /\ ErrorCode(Envelope(r)) = "INTERNAL_ERROR"
                /\ Len(per_ply[r]) = j - 1
                /\ Envelope(r).per_ply = per_ply[r]

----------------------------------------------------------------------------
(* C5.  On every exit path on which an engine was launched (normal          *)
(* completion, illegal move, failed analysis), the session is released:     *)
(* engine.quit is invoked on it exactly once, by the request that launched  *)
(* it, before the envelope is handed back; no request has returned while    *)
(* its session is still awaiting its quit.                                  *)

C5_EngineReleased ==
    \A r \in RequestIds :
        /\ result[r] # None => pc[r] = "done"
        /\ engine[r] # None =>
              LET s == sessions[The(engine[r])]
              IN /\ s.owner = r
                 /\ pc[r] = "done" => s.quits = 1
                 /\ pc[r] # "done" => (s.quits = 0 /\ s.open)
                 /\ s.quits = 0 => s.open

\* the early return on an illegal move, with the engine quit
C5_Witness ==
    \E r \in RequestIds :
        /\ Returned(r)
        /\ Envelope(r).error # None
        /\ ErrorCode(Envelope(r)) = "ILLEGAL_MOVE"
        /\ engine[r] # None
        /\ sessions[The(engine[r])].quits = 1

----------------------------------------------------------------------------
(* C6.  Every execution of analyze_pgn ends by returning a well-formed      *)
(* envelope, whatever fails: exactly the fields status, legal, per_ply,     *)
(* key_moments, error; status "ok" or "error"; error null exactly when      *)
(* status is "ok", else {code, message, details} with one of the four       *)
(* codes.  No failure escapes, and every step moves the request forward     *)
(* along a bounded scale, so that no execution goes on for ever.            *)

ErrorCodes == {"INVALID_PGN", "INVALID_FEN", "ILLEGAL_MOVE", "INTERNAL_ERROR"}

WellFormed(e) ==
    /\ DOMAIN e = {"status", "legal", "per_ply", "key_moments", "error"}
    /\ e.status \in {"ok", "error"}
    /\ e.legal \in BOOLEAN
    /\ e.error = None <=> e.status = "ok"
    /\ e.error # None =>
          /\ DOMAIN The(e.error) = {"code", "message", "details"}
          /\ The(e.error).code \in ErrorCodes

ProgressLimit == 6 + 2 * Len(MainLine)

Progress(r) ==
    CASE pc[r] = "idle" -> 0
      [] pc[r] = "parse" -> 1
      [] pc[r] = "board" -> 2
      [] pc[r] = "launch" -> 3
      [] pc[r] = "configure" -> 4
      [] pc[r] = "loop" -> 5 + 2 * ply[r]
      [] pc[r] = "analyse" -> 4 + 2 * ply[r]
      [] pc[r] = "key_moments" -> ProgressLimit
      [] pc[r] = "finally" -> ProgressLimit + 1
      [] OTHER -> ProgressLimit + 2

C6_StateOk ==
    \A r \in RequestIds :
        /\ pc[r] # "crashed"
        /\ pc[r] \in {"loop", "analyse"} => 5 + 2 * ply[r] < ProgressLimit
        /\ pc[r] = "done" => (result[r] # None /\ WellFormed(Envelope(r)))
        /\ pc[r] # "done" => result[r] = None

C6_AlwaysEnvelope ==
    /\ [](C6_StateOk)
    /\ [][\A r \in RequestIds :
              pc'[r] = pc[r] \/ Progress(r)' > Progress(r)]_vars

\* an engine failure in mid-replay, ended in a well-formed INTERNAL_ERROR envelope
C6_Witness ==
    \E r \in RequestIds :
        /\ Returned(r)
        /\ WellFormed(Envelope(r))
        /\ Envelope(r).error # None
        /\ ErrorCode(Envelope(r)) = "INTERNAL_ERROR"
        /\ ply[r] >= 2

----------------------------------------------------------------------------
(* C7.  Decode-stage failures carry their own codes and no partial result:  *)
(* an unparsable record gives INVALID_PGN with empty per_ply and            *)
(* key_moments and legal = false; a parsed record with an invalid explicit  *)
(* starting-position override gives INVALID_FEN with empty per_ply; the     *)
(* record is checked first.                                                 *)

IsInvalidPgn(e) ==
    /\ e.status = "error" /\ e.error # None /\ ErrorCode(e) = "INVALID_PGN"
    /\ e.per_ply = << >> /\ e.key_moments = << >> /\ e.legal = FALSE

IsInvalidFen(e) ==
    /\ e.status = "error" /\ e.error # None /\ ErrorCode(e) = "INVALID_FEN"
    /\ e.per_ply = << >>

\* C7 as stated: every override that is given and is no valid encoding
C7_EveryInvalidOverride ==
    \A r \in RequestIds :
        Returned(r) =>
            /\ ~Decodes(Rq(r)) => IsInvalidPgn(Envelope(r))
            /\ (Decodes(Rq(r)) /\ Rq(r).initial_fen # None
                    /\ The(Rq(r).initial_fen) \notin ValidFens)
                  => IsInvalidFen(Envelope(r))

\* C7 amended: every non-empty override that is no valid encoding; the empty
\* string counts as no override, and the start position is then the record's
C7_DecodeFailures ==
    \A r \in RequestIds :
        Returned(r) =>
            /\ ~Decodes(Rq(r)) => IsInvalidPgn(Envelope(r))
            /\ (Decodes(Rq(r)) /\ Rq(r).initial_fen # None
                    /\ The(Rq(r).initial_fen) # ""
                    /\ The(Rq(r).initial_fen) \notin ValidFens)
                  => IsInvalidFen(Envelope(r))
            /\ (Decodes(Rq(r)) /\ Rq(r).initial_fen = Some("")
                    /\ Rq(r).pgn.fen_header \in ValidFens)
                  => (Envelope(r).error = None
                        \/ ErrorCode(Envelope(r)) \notin {"INVALID_PGN", "INVALID_FEN"})

\* a request with both defects, answered INVALID_PGN
C7_Witness ==
    \E r \in RequestIds :
        /\ Returned(r)
        /\ Rq(r).pgn.read = "none"
        /\ Rq(r).initial_fen = Some("not a fen")
        /\ IsInvalidPgn(Envelope(r))

----------------------------------------------------------------------------
(* C8.  In every returned envelope key_moments has at most 5 entries, is    *)
(* ordered by non-increasing swing, and every entry with ply = i has        *)
(* swing = |eval_cp of per_ply[i] - eval_cp of per_ply[i-1]|, both present  *)
(* in per_ply, and the eval_cp and played_san of per_ply[i].                *)

C8_KeyMomentsShape ==
    \A r \in RequestIds :
        Returned(r) =>
            LET km == Envelope(r).key_moments
                pp == Envelope(r).per_ply
            IN /\ Len(km) <= 5
               /\ \A a \in 1..Len(km) : \A b \in (a + 1)..Len(km) :
                      km[a].swing >= km[b].swing
               /\ \A a \in 1..Len(km) :
                      LET i == km[a].ply
                      IN /\ i \in 2..Len(pp)
                         /\ pp[i].ply = i
                         /\ pp[i].eval_cp # None /\ pp[i - 1].eval_cp # None
                         /\ km[a].swing =
                                Abs(The(pp[i].eval_cp) - The(pp[i - 1].eval_cp))
                         /\ pp[i].eval_cp = Some(km[a].eval_cp)
                         /\ km[a].played_san = pp[i].played_san

\* six plies have a swing, of different sizes, and five are kept
C8_Witness ==
    \E r \in RequestIds :
        /\ Returned(r)
        /\ Len(Envelope(r).per_ply) >= 7
        /\ \A i \in 1..7 : Envelope(r).per_ply[i].eval_cp # None
        /\ Len(Envelope(r).key_moments) = 5
        /\ Envelope(r).key_moments[1].swing > Envelope(r).key_moments[5].swing
        /\ Envelope(r).key_moments[1].ply > Envelope(r).key_moments[5].ply

----------------------------------------------------------------------------
(* C9.  Ties of swing are broken by the earlier ply: key_moments is the     *)
(* list of candidate plies ordered by descending swing, then ascending ply, *)
(* cut to its first 5; of two candidates with equal swing the earlier one   *)
(* comes first and is the one kept when only one fits.                      *)

\* the candidate plies of a per_ply list: both evaluations present
Candidates(pp) ==
    {i \in 2..Len(pp) : pp[i].eval_cp # None /\ pp[i - 1].eval_cp # None}

SwingAt(pp, i) == Abs(The(pp[i].eval_cp) - The(pp[i - 1].eval_cp))

\* candidate i comes before candidate j
ComesBefore(pp, i, j) ==
    \/ SwingAt(pp, i) > SwingAt(pp, j)
    \/ SwingAt(pp, i) = SwingAt(pp, j) /\ i < j

C9_TiesEarlierPlyFirst ==
    \A r \in RequestIds :
        Returned(r) =>
            LET km == Envelope(r).key_moments
                pp == Envelope(r).per_ply
                kept == {km[a].ply : a \in 1..Len(km)}
            IN /\ kept \subseteq Candidates(pp)
               /\ Len(km) = Min(5, Cardinality(Candidates(pp)))
               /\ Cardinality(kept) = Len(km)
               /\ \A a \in 1..Len(km) : \A b \in (a + 1)..Len(km) :
                      ComesBefore(pp, km[a].ply, km[b].ply)
               /\ \A i \in kept : \A j \in Candidates(pp) \ kept :
                      ComesBefore(pp, i, j)

\* a tie across the cut: a dropped ply has the swing of a kept one
C9_Witness ==
    \E r \in RequestIds :
        /\ Returned(r)
        /\ Len(Envelope(r).key_moments) = 5
        /\ LET km == Envelope(r).key_moments
               pp == Envelope(r).per_ply
               kept == {km[a].ply : a \in 1..Len(km)}
           IN /\ \E j \in Candidates(pp) \ kept : SwingAt(pp, j) = km[5].swing
              /\ km[1].swing > km[5].swing
              /\ \E a \in 1..4 : km[a].swing = km[a + 1].swing

----------------------------------------------------------------------------
(* C10.  Requests running concurrently share no mutable state: each returns *)
(* the envelope it would return if run alone, each engine session is used   *)
(* and quit by the request that launched it only, and no two requests hold  *)
(* the same session.                                                        *)

\* the replay of analyze_pgn run on its own, from ply i on
RECURSIVE ReplayAlone(_, _, _, _, _)
ReplayAlone(moves, script, i, b, records) ==
    IF i > Len(moves)
    THEN ok(TRUE, Some(records), Some(KeySorted(records)), "ok", None)
    ELSE IF ~IsLegal(b, moves[i])
    THEN fail("ILLEGAL_MOVE", "Move is not legal from reconstructed position.",
              Some(Dict1("first_illegal_move",
                         [ply |-> i, uci |-> Uci(moves[i]), fen_before |-> Fen(b)])),
              FALSE, None, None)
    ELSE IF script[i].kind = "raises"
    THEN InternalError("engine analyse failed")
    ELSE ReplayAlone(moves, script, i + 1, Push(b, moves[i]),
                     Append(records,
                            PlyRecord(i, moves[i], San(b, moves[i]), Push(b, moves[i]),
                                      Analyse(script[i], Push(b, moves[i])))))

\* the envelope of a request served with no other request in progress
AnalyzeAlone(rq, sf) ==
    IF rq.pgn.read = "raises"
    THEN fail("INVALID_PGN", "Could not parse PGN.",
              Some(Dict1("exception", "unreadable pgn")), FALSE, None, None)
    ELSE IF rq.pgn.read = "none"
    THEN fail("INVALID_PGN", "Could not parse PGN.", None, FALSE, None, None)
    ELSE IF ~StartValid(rq)
    THEN fail("INVALID_FEN", "Initial FEN is invalid.",
              Some(Dict1("exception", "invalid fen")), FALSE, None, None)
    ELSE IF ~sf.launch
    THEN InternalError("engine launch failed")
    ELSE ReplayAlone(rq.pgn.movetext, sf.script, 1, Board(StartSource(rq)), << >>)

C10_RequestsIndependent ==
    /\ \A r \in RequestIds :
          /\ Returned(r) => Envelope(r) = AnalyzeAlone(Rq(r), Sf(r))
          /\ engine[r] # None => sessions[The(engine[r])].owner = r
    /\ \A r1 \in RequestIds : \A r2 \in RequestIds \ {r1} :
          engine[r1] # None => engine[r1] # engine[r2]
    /\ \A e \in 1..Len(sessions) : sessions[e].users \subseteq {sessions[e].owner}

\* request 2 launched its engine first and is still analysing on it when
\* request 1, which analysed on its own engine, has returned ok
C10_Witness ==
    /\ Len(sessions) = 2
    /\ sessions[1].owner = 2 /\ sessions[1].users = {2} /\ sessions[1].open
    /\ sessions[2].owner = 1 /\ sessions[2].quits = 1
    /\ Returned(1) /\ Envelope(1).status = "ok" /\ Len(Envelope(1).per_ply) = 1
    /\ pc[2] = "loop" /\ Len(per_ply[2]) = 1

----------------------------------------------------------------------------
(* C11.  Within one request engine.analyse is called at most once per       *)
(* replayed ply, on the position after moves 1..i, after move i has passed  *)
(* the legality check and been pushed and before move i+1 is checked; it is *)
(* never called for the ply of the rejected move or a later one, and a call *)
(* that raised is not repeated.                                             *)

\* the analyse calls made on the engine of request r, in order
CallsOf(r) ==
    IF engine[r] = None THEN << >> ELSE sessions[The(engine[r])].calls

C11_CallsInStep(r) ==
    LET calls == CallsOf(r)
        rq == Rq(r)
        k == FirstIllegal(rq)
        start == Board(StartSource(rq))
    IN /\ Len(calls) <= ply[r]
       /\ \A i \in 1..Len(calls) :
             /\ calls[i].by = r
             /\ k = 0 \/ i < k
             /\ calls[i].fen = Fen(PositionAfter(start, rq.pgn.movetext, i))
       \* between the push of move ply[r] and its analysis
       /\ pc[r] = "analyse" =>
             /\ Len(calls) = ply[r] - 1
             /\ Len(The(board[r]).move_stack) = ply[r]
       \* before the legality check of move ply[r] + 1
       /\ pc[r] = "loop" => Len(calls) = ply[r] /\ Len(per_ply[r]) = ply[r]
       /\ Returned(r) =>
             /\ Envelope(r).status = "ok" => Len(calls) = Len(rq.pgn.movetext)
             /\ Envelope(r).status = "error"
                   /\ ErrorCode(Envelope(r)) = "ILLEGAL_MOVE" => Len(calls) = k - 1
             /\ \A j \in 1..Len(rq.pgn.movetext) :
                   EngineFailsAt(r, j) => Len(calls) = j

C11_AnalyseOncePerPly ==
    /\ [](\A r \in RequestIds : engine[r] # None => C11_CallsInStep(r))
    /\ [][\A r \in RequestIds :
             CallsOf(r)' # CallsOf(r) =>
                /\ pc[r] = "analyse" /\ pc'[r] # "analyse"
                /\ Len(CallsOf(r)') = Len(CallsOf(r)) + 1]_vars

\* two plies analysed, the third move rejected
C11_Witness ==
    \E r \in RequestIds :
        /\ Returned(r)
        /\ IllegalAt(r, 3)
        /\ ErrorCode(Envelope(r)) = "ILLEGAL_MOVE"
        /\ Len(CallsOf(r)) = 2

----------------------------------------------------------------------------
(* C12.  Whatever integer req.multipv is (zero, negative, large), the line  *)
(* count handed to engine.configure and to every engine.analyse call is 1   *)
(* when multipv < 1, 3 when multipv > 3 and multipv itself otherwise: it is *)
(* always within 1..3.                                                      *)

\* the line count the engine is to be asked for
ExpectedLineCount(m) == IF m < 1 THEN 1 ELSE IF m > MaxMultiPV THEN MaxMultiPV ELSE m

C12_LineCountClamped ==
    \A e \in 1..Len(sessions) :
        LET m == Rq(sessions[e].owner).multipv
            counts == {sessions[e].calls[i].multipv : i \in 1..Len(sessions[e].calls)}
                      \cup {c.multipv : c \in sessions[e].configure}
        IN \A n \in counts :
              /\ n = ExpectedLineCount(m)
              /\ n \in 1..MaxMultiPV
              /\ m \in 1..MaxMultiPV => n = m

\* a negative line count, configured and analysed with twice
C12_Witness ==
    \E r \in RequestIds :
        /\ Returned(r)
        /\ Rq(r).multipv < 0
        /\ engine[r] # None
        /\ sessions[The(engine[r])].configure # None
        /\ The(sessions[The(engine[r])].configure).multipv = 1
        /\ Len(CallsOf(r)) = 2
        /\ \A i \in 1..2 : CallsOf(r)[i].multipv = 1

----------------------------------------------------------------------------
(* C13.  Two invocations of analyze_pgn with the same record, the same      *)
(* start-position override and the same engine behaviour return the same    *)
(* envelope (status, legal, per_ply with its evaluations and pvs,           *)
(* key_moments, error), and ask their engines the same analyses; nothing    *)
(* that one invocation leaves behind reaches the other.                     *)

\* what the engine of request r was asked, without the caller
AskedOf(r) ==
    [i \in 1..Len(CallsOf(r)) |->
        [fen |-> CallsOf(r)[i].fen, multipv |-> CallsOf(r)[i].multipv]]

C13_SameInputsSameEnvelope ==
    \A r1 \in RequestIds : \A r2 \in RequestIds \ {r1} :
        (/\ Returned(r1) /\ Returned(r2)
         /\ req[r1] = req[r2]
         /\ stockfish[r1] = stockfish[r2])
        => /\ result[r1] = result[r2]
           /\ AskedOf(r1) = AskedOf(r2)
           /\ engine[r1] # None => engine[r1] # engine[r2]

\* the same analysed game returned twice, from two engine processes
C13_Witness ==
    /\ Returned(1) /\ Returned(2)
    /\ req[1] = req[2] /\ stockfish[1] = stockfish[2]
    /\ Envelope(1).status = "ok" /\ Len(Envelope(1).per_ply) = 1
    /\ Envelope(1).per_ply[1].eval_cp = Some(0 - 30)
    /\ Envelope(2) = Envelope(1)
    /\ Len(sessions) = 2

----------------------------------------------------------------------------
(* C14.  In every PlyRecord eval_cp is the eval_cp of the entry of pvs of   *)
(* rank 1 (of the last such entry, should the engine report several), and   *)
(* it is absent exactly when pvs has no entry of rank 1; it never comes     *)
(* from an entry of another rank.                                           *)

\* the positions of the entries of rank 1 in pvs
RankOne(pvs) == {i \in 1..Len(pvs) : pvs[i].rank = 1}

C14_EvalFromRankOne ==
    \A r \in RequestIds : \A p \in 1..Len(per_ply[r]) :
        LET rec == per_ply[r][p]
            ones == RankOne(rec.pvs)
        IN IF ones = {}
           THEN rec.eval_cp = None
           ELSE /\ rec.eval_cp # None
                /\ rec.eval_cp =
                      rec.pvs[CHOOSE i \in ones : \A j \in ones : j <= i].eval_cp

\* the alternate line reported first and scored differently: eval_cp is
\* the score of the line of rank 1
C14_Witness ==
    \E r \in RequestIds :
        /\ Returned(r) /\ Envelope(r).status = "ok"
        /\ LET rec == Envelope(r).per_ply[1]
           IN /\ Len(rec.pvs) = 2
              /\ rec.pvs[1].rank = 1 /\ rec.pvs[2].rank = 2
              /\ Sf(r).script[1].lines[1].multipv = Some(2)
              /\ rec.pvs[1].eval_cp # rec.pvs[2].eval_cp
              /\ rec.eval_cp = rec.pvs[1].eval_cp

----------------------------------------------------------------------------
(* C15.  In every PlyRecord, whatever lines the engine returned (lines      *)
(* without multipv or with a repeated multipv included), the ranks of the   *)
(* entries of pvs are pairwise distinct and pvs is in ascending rank order. *)

RanksOf(pvs) == [i \in 1..Len(pvs) |-> pvs[i].rank]

PairwiseDistinct(q) == \A i \in 1..Len(q) : \A j \in 1..Len(q) : i # j => q[i] # q[j]

C15_RanksDistinctAscending ==
    \A r \in RequestIds : \A p \in 1..Len(per_ply[r]) :
        LET ranks == RanksOf(per_ply[r][p].pvs)
        IN /\ PairwiseDistinct(ranks)
           /\ \A i \in 1..Len(ranks) : \A j \in 1..Len(ranks) :
                 i < j => ranks[i] <= ranks[j]

\* the ranks the code gives the lines with moves of the answer to ply p, in
\* the engine's order: the line's multipv, 1 when it has none
ReportedRanks(r, p) ==
    LET lines == Sf(r).script[p].lines
        WithMoves(n) == Cardinality({i \in 1..n : lines[i].choice # 0})
        total == WithMoves(Len(lines))
    IN [k \in 1..total |->
           LET i == CHOOSE i \in 1..Len(lines) :
                       lines[i].choice # 0 /\ WithMoves(i) = k
           IN IF lines[i].multipv = None THEN 1 ELSE The(lines[i].multipv)]

(* C15 as it holds: pvs is in ascending rank order, and its ranks are       *)
(* pairwise distinct whenever the lines with moves that the engine returned *)
(* have pairwise distinct ranks; its ranks are those lines' ranks.          *)
C15_RanksAscending ==
    \A r \in RequestIds : \A p \in 1..Len(per_ply[r]) :
        LET ranks == RanksOf(per_ply[r][p].pvs)
            reported == ReportedRanks(r, p)
        IN /\ \A i \in 1..Len(ranks) : \A j \in 1..Len(ranks) :
                 i < j => ranks[i] <= ranks[j]
           /\ Len(ranks) = Len(reported)
           /\ \A n \in {1, 2} :
                 Cardinality({i \in 1..Len(ranks) : ranks[i] = n})
                    = Cardinality({i \in 1..Len(reported) : reported[i] = n})
           /\ PairwiseDistinct(reported) => PairwiseDistinct(ranks)

\* rank 2 reported before a line without multipv: pvs has rank 1, then rank 2
C15_Witness ==
    \E r \in RequestIds :
        /\ Returned(r) /\ Envelope(r).status = "ok"
        /\ ReportedRanks(r, 1) = <<2, 1>>
        /\ Sf(r).script[1].lines[2].multipv = None
        /\ RanksOf(Envelope(r).per_ply[1].pvs) = <<1, 2>>

----------------------------------------------------------------------------
(* C16.  The plies that can become key moments are exactly the plies i >= 2 *)
(* for which per_ply[i] and per_ply[i-1] both carry an evaluation: ply 1,   *)
(* a ply without evaluation and a ply that directly follows a ply without   *)
(* evaluation never are key moments, and every other ply is one unless the  *)
(* cut to five drops it.                                                    *)

KeptPlies(env) == {env.key_moments[a].ply : a \in 1..Len(env.key_moments)}

C16_KeyMomentCandidates ==
    \A r \in RequestIds :
        (Returned(r) /\ Envelope(r).status = "ok") =>
            LET pp == Envelope(r).per_ply
                kept == KeptPlies(Envelope(r))
                absent == {i \in 1..Len(pp) : pp[i].eval_cp = None}
                eligible == (2..Len(pp)) \ (absent \cup {i + 1 : i \in absent})
            IN /\ 1 \notin kept
               /\ kept \cap absent = {}
               /\ \A i \in absent : (i + 1) \notin kept
               /\ kept \subseteq eligible
               /\ Cardinality(eligible) <= TopN => kept = eligible
               /\ Cardinality(kept) = Min(TopN, Cardinality(eligible))

\* evaluations at plies 1, 3 and 4 but not at ply 2: only ply 4 is a key
\* moment, although the evaluations of plies 1 and 3 differ
C16_Witness ==
    \E r \in RequestIds :
        /\ Returned(r) /\ Envelope(r).status = "ok"
        /\ LET pp == Envelope(r).per_ply
           IN /\ Len(pp) = 4
              /\ pp[2].eval_cp = None
              /\ pp[1].eval_cp # None /\ pp[3].eval_cp # None /\ pp[4].eval_cp # None
              /\ pp[1].eval_cp # pp[3].eval_cp
              /\ KeptPlies(Envelope(r)) = {4}

----------------------------------------------------------------------------
(* C17.  A line that the engine returns without moves adds no entry to the  *)
(* ply's pvs; the other lines of the answer are each normalised into an     *)
(* entry, the ply's record is appended all the same (without eval_cp when   *)
(* no line with moves has rank 1), and the replay goes on to the next move. *)

\* the lines of the answer to ply p of request r that carry moves
LinesWithMoves(r, p) ==
    {i \in 1..Len(Sf(r).script[p].lines) : Sf(r).script[p].lines[i].choice # 0}

C17_EmptyLineSkipped ==
    \A r \in RequestIds :
        (/\ Returned(r)
         /\ Decodes(Rq(r)) /\ StartValid(Rq(r)) /\ FirstIllegal(Rq(r)) = 0
         /\ EngineServes(Sf(r), Len(Rq(r).pgn.movetext)))
        => /\ Envelope(r).status = "ok"
           /\ Len(Envelope(r).per_ply) = Len(Rq(r).pgn.movetext)
           /\ \A p \in 1..Len(Envelope(r).per_ply) :
                 LET rec == Envelope(r).per_ply[p]
                     lines == Sf(r).script[p].lines
                     pos == PositionAfter(Board(StartSource(Rq(r))),
                                          Rq(r).pgn.movetext, p)
                     RankOfLine(i) == IF lines[i].multipv = None THEN 1
                                      ELSE The(lines[i].multipv)
                 IN /\ Len(rec.pvs) = Cardinality(LinesWithMoves(r, p))
                    /\ \A i \in LinesWithMoves(r, p) :
                          \E a \in 1..Len(rec.pvs) :
                              /\ rec.pvs[a].rank = RankOfLine(i)
                              /\ rec.pvs[a].uci = Uci(LegalMoves(pos)[lines[i].choice])
                              /\ rec.pvs[a].eval_cp =
                                    score_to_cp([relative |-> lines[i].rel,
                                                 turn |-> pos.turn])
                    /\ (\A i \in LinesWithMoves(r, p) : RankOfLine(i) # 1)
                          => rec.eval_cp = None

\* the line of rank 1 has no moves and comes first, the line of rank 2 has:
\* both plies are recorded, each with the one entry of rank 2 and no eval_cp
C17_Witness ==
    \E r \in RequestIds :
        /\ Returned(r) /\ Envelope(r).status = "ok"
        /\ Len(Envelope(r).per_ply) = 2
        /\ LET lines == Sf(r).script[1].lines
           IN /\ Len(lines) = 2
              /\ lines[1].choice = 0 /\ lines[1].multipv = Some(1)
              /\ lines[2].choice # 0 /\ lines[2].multipv = Some(2)
        /\ \A p \in 1..2 :
              /\ Len(Envelope(r).per_ply[p].pvs) = 1
              /\ Envelope(r).per_ply[p].pvs[1].rank = 2
              /\ Envelope(r).per_ply[p].eval_cp = None

----------------------------------------------------------------------------
(* C18.  When the engine rejects the MultiPV option the request goes on as  *)
(* if it had been accepted: it replays and analyses with the same line      *)
(* count, returns the envelope it would return with an accepting engine,    *)
(* and returns INTERNAL_ERROR only when an analyse call raises.             *)

\* the engine of request r has been configured and rejected the option
ConfigureRejected(r) ==
    /\ engine[r] # None
    /\ sessions[The(engine[r])].configure # None
    /\ ~The(sessions[The(engine[r])].configure).accepted

C18_ConfigureFailureAbsorbed ==
    \A r \in RequestIds :
        ConfigureRejected(r) =>
            /\ pc[r] \in {"loop", "analyse", "key_moments", "finally", "done"}
            /\ \A i \in 1..Len(CallsOf(r)) :
                  CallsOf(r)[i].multipv = ClampMultiPV(Rq(r).multipv)
            /\ Returned(r) =>
                  /\ Envelope(r) = AnalyzeAlone(Rq(r), Engine(TRUE, Sf(r).script))
                  /\ (Envelope(r).status = "error"
                        /\ ErrorCode(Envelope(r)) = "INTERNAL_ERROR")
                     => \E j \in 1..Len(Rq(r).pgn.movetext) : EngineFailsAt(r, j)

\* the option was rejected and three plies were analysed and returned
C18_Witness ==
    \E r \in RequestIds :
        /\ Returned(r)
        /\ ConfigureRejected(r)
        /\ Envelope(r).status = "ok"
        /\ Len(Envelope(r).per_ply) = 3
        /\ Len(CallsOf(r)) = 3

----------------------------------------------------------------------------
(* C19.  In every returned envelope legal is true exactly when status is    *)
(* "ok", which is exactly when error is null; every error envelope, those   *)
(* of INVALID_PGN, INVALID_FEN and INTERNAL_ERROR included, has legal =     *)
(* false, per_ply = [] and key_moments = [].                                *)

C19_LegalIffOk ==
    \A r \in RequestIds :
        Returned(r) =>
            LET e == Envelope(r)
            IN /\ e.legal <=> e.status = "ok"
               /\ e.legal <=> e.error = None
               /\ e.status = "error" =>
                     /\ ~e.legal
                     /\ e.per_ply = << >>
                     /\ e.key_moments = << >>

\* an INTERNAL_ERROR envelope returned after two plies had been recorded
C19_Witness ==
    \E r \in RequestIds :
        /\ Returned(r)
        /\ Envelope(r).status = "error"
        /\ ErrorCode(Envelope(r)) = "INTERNAL_ERROR"
        /\ Len(per_ply[r]) = 2
        /\ ~Envelope(r).legal
        /\ Envelope(r).per_ply = << >>

----------------------------------------------------------------------------
(* C20.  An engine process is launched only after the record and the start  *)
(* position have both been decoded: a request that ends in INVALID_PGN or   *)
(* INVALID_FEN has launched, configured, analysed on and quit no engine,    *)
(* and no request launches more than one engine process.                    *)

\* the engine processes that request r launched or called
SessionsOf(r) ==
    {e \in 1..Len(sessions) : sessions[e].owner = r \/ r \in sessions[e].users}

C20_EngineAfterDecoding ==
    \A r \in RequestIds :
        /\ Cardinality(SessionsOf(r)) <= 1
        /\ SessionsOf(r) # {} =>
              /\ game[r] # None /\ board[r] # None
              /\ Decodes(Rq(r)) /\ StartValid(Rq(r))
              /\ engine[r] # None /\ SessionsOf(r) = {The(engine[r])}
        /\ (Returned(r) /\ Envelope(r).status = "error"
              /\ ErrorCode(Envelope(r)) \in {"INVALID_PGN", "INVALID_FEN"})
           => /\ engine[r] = None
              /\ SessionsOf(r) = {}

\* a readable record with an invalid override and an engine that would have
\* launched: INVALID_FEN, and no engine process exists
C20_Witness ==
    \E r \in RequestIds :
        /\ Returned(r)
        /\ Envelope(r).status = "error"
        /\ ErrorCode(Envelope(r)) = "INVALID_FEN"
        /\ game[r] # None
        /\ Sf(r).launch
        /\ engine[r] = None
        /\ sessions = << >>

====
